---- MODULE Spec2Model ----
(***************************************************************************)
(* Model of the mod updater (src/main.py and src/mod-updater.py).          *)
(* Both entry points run the same sequential pipeline:                     *)
(*   scan the mod directory and hash every .jar  ->  bulk details lookup   *)
(*   ->  partition by first loader  ->  one bulk update lookup per loader  *)
(*   ->  per-mod decision, download and delete  ->  summary.               *)
(* Strings that the code splits are sequences of tokens, the separators    *)
(* "/" and "." being tokens of their own.  Dictionaries are functions.     *)
(***************************************************************************)
EXTENDS Naturals, Sequences, FiniteSets, TLC

\* ------------------------------------------------------------------ bounds
\* number of .jar files the mod directory may hold before the run
MaxJars == 2

\* ------------------------------------------------------- values and inputs
Stems == <<"a", "b", "e", "f">>

\* the sha1 values local files may have, and the ones the registry may name:
\* those and the sha1 of a version that no local file has
LocalIds == {"h1", "h2"}
RemoteIds == LocalIds \cup {"h3"}

JarName(i) == <<Stems[i], ".", "jar">>
LocalJars == {JarName(i) : i \in 1..MaxJars}
TxtName == <<"notes", ".", "txt">>

\* the loader lists the registry may return: one loader, or two of which the
\* first decides
LoaderSeqs == {<<"fabric">>, <<"forge", "fabric">>}

\* the file references the registry may propose: a.jar (a new name when the
\* directory has no a.jar, the name of a local file when it has), and a name
\* the url carries percent-encoded
CandidateShapes ==
    { [url |-> <<"cdn", "/", "a", ".", "jar">>, filename |-> <<"a", ".", "jar">>],
      [url |-> <<"cdn", "/", "d", "%2B", ".", "jar">>, filename |-> <<"d", "+", ".", "jar">>] }

FileRefs ==
    { [url |-> k.url, filename |-> k.filename, hashes |-> [sha1 |-> s]] :
        k \in CandidateShapes, s \in RemoteIds }

\* ways a download can end: success; an HTTP error status (raise_for_status);
\* a connection failure or timeout (raised by requests.get, not an HTTPError);
\* an OSError while the destination file is being written
DownloadOutcomes == {"ok", "http", "conn", "oserr"}

\* ------------------------------------------------------------ pure helpers
RECURSIVE LastSepIndex(_, _, _)
LastSepIndex(s, sep, i) ==
    IF i = 0 THEN 0
    ELSE IF s[i] = sep THEN i
    ELSE LastSepIndex(s, sep, i - 1)

\* s.split(sep)[-1]: what follows the last separator (all of s if none)
SplitLast(s, sep) == SubSeq(s, LastSepIndex(s, sep, Len(s)) + 1, Len(s))

\* item.split('.')[-1] != 'jar'
IsIgnored(item) == SplitLast(item, ".") # <<"jar">>

EmptyDict == [k \in {} |-> {}]

\* d[k] = v
Put(d, k, v) == [x \in (DOMAIN d) \cup {k} |-> IF x = k THEN v ELSE d[x]]

\* del d[k]
Drop(d, k) == [x \in (DOMAIN d) \ {k} |-> d[x]]

\* ------------------------------------------------------------------- state
VARIABLES
    entry,                 \* "main" (src/main.py) or "mod_updater" (src/mod-updater.py)
    run,                   \* 1, or 2 when the script is being run a second time
    reg_info,              \* in run 2: what the registry answered in run 1
    reg_updates,           \*   (details, and updates per loader)
    keep,                  \* args.keep
    dir,                   \* the mod directory: file name -> content (its sha1)
    dir0,                  \* the mod directory as it was before the run
    pc,                    \* "scan", "details", "updates", "loop", then how the
                           \* run ended: "summary", "exit" (exit()), "crash"
    cause,                 \* why the run ended early ("none" while it has not)
    unscanned,             \* entries of os.listdir not visited yet
    mods_filename_dict,    \* sha1 -> file name
    mod_hash_list,         \* sha1 of every .jar, in scan order
    pkg_file,              \* the file each entry of mod_hash_list was hashed from
    mods_info_dict,        \* response of get_multiple_mods_details
    loader_mods_dict,      \* loader -> the sha1s of its group
    mods_loader_dict,      \* sha1 -> loader
    mods_update_info,      \* loader -> response of get_multiple_mods_update_info
    loaders_todo,          \* loaders whose update lookup is still to be issued
    registry_calls,        \* the bulk calls issued so far, in order:
                           \* [api, loader, mods]
    idx,                   \* position of the update loop in mod_hash_list
    mods_updated_count,
    no_new_version_count,
    decision,              \* per entry of mod_hash_list: the branch the loop took
    dl,                    \* per entry: "none" or how its download ended
    del,                   \* per entry: "none", "ok" or "missing" (os.remove raised)
    wrote                  \* per entry: the file name its download opened for
                           \* writing (<< >> if none)

vars == <<entry, run, reg_info, reg_updates, keep, dir, dir0, pc, cause, unscanned, mods_filename_dict,
          mod_hash_list, pkg_file, mods_info_dict, loader_mods_dict,
          mods_loader_dict, mods_update_info, loaders_todo, registry_calls,
          idx, mods_updated_count, no_new_version_count, decision, dl, del,
          wrote>>

runVars == <<entry, keep, run, reg_info, reg_updates>>
scanVars == <<unscanned, mods_filename_dict, mod_hash_list, pkg_file>>
registryVars == <<mods_info_dict, loader_mods_dict, mods_loader_dict,
                  mods_update_info, loaders_todo, registry_calls>>
loopVars == <<idx, mods_updated_count, no_new_version_count, decision, dl, del,
              wrote>>

\* the directories a run may start from: notes.txt and up to MaxJars .jar files
InitialDirs ==
    { [f \in J \cup {TxtName} |-> IF f = TxtName THEN "text" ELSE c[f]] :
        J \in SUBSET LocalJars, c \in [LocalJars -> LocalIds] }

Init ==
    /\ entry \in {"main", "mod_updater"}
    /\ keep \in BOOLEAN
    /\ run = 1
    /\ reg_info = EmptyDict
    /\ reg_updates = EmptyDict
    /\ dir \in InitialDirs
    /\ dir0 = dir
    /\ pc = "scan"
    /\ cause = "none"
    /\ unscanned = DOMAIN dir
    /\ mods_filename_dict = EmptyDict
    /\ mod_hash_list = << >>
    /\ pkg_file = << >>
    /\ mods_info_dict = EmptyDict
    /\ loader_mods_dict = EmptyDict
    /\ mods_loader_dict = EmptyDict
    /\ mods_update_info = EmptyDict
    /\ loaders_todo = {}
    /\ registry_calls = << >>
    /\ idx = 1
    /\ mods_updated_count = 0
    /\ no_new_version_count = 0
    /\ decision = << >>
    /\ dl = << >>
    /\ del = << >>
    /\ wrote = << >>

\* -------------------------------------------------------------------- scan
\* where the run goes once os.listdir is exhausted: "if not mod_hash_list: exit()"
AfterScan(left, hashes) ==
    IF left # {} THEN "scan"
    ELSE IF hashes = << >> THEN "exit"
    ELSE "details"

\* one iteration of the scan loop over a file that is not a .jar
IgnoreItem(item) ==
    /\ pc = "scan"
    /\ item \in unscanned
    /\ IsIgnored(item)
    /\ unscanned' = unscanned \ {item}
    /\ pc' = AfterScan(unscanned', mod_hash_list)
    /\ cause' = IF pc' = "exit" THEN "no_mods" ELSE cause
    /\ UNCHANGED <<runVars, dir, dir0, mods_filename_dict, mod_hash_list,
                   pkg_file, registryVars, loopVars>>

\* one iteration of the scan loop over a .jar whose content get_sha1 reads
HashItem(item) ==
    /\ pc = "scan"
    /\ item \in unscanned
    /\ ~IsIgnored(item)
    /\ unscanned' = unscanned \ {item}
    /\ mods_filename_dict' = Put(mods_filename_dict, dir[item], item)
    /\ mod_hash_list' = Append(mod_hash_list, dir[item])
    /\ pkg_file' = Append(pkg_file, item)
    /\ decision' = Append(decision, "none")
    /\ dl' = Append(dl, "none")
    /\ del' = Append(del, "none")
    /\ wrote' = Append(wrote, << >>)
    /\ pc' = AfterScan(unscanned', mod_hash_list')
    /\ UNCHANGED <<runVars, dir, dir0, cause, registryVars, idx,
                   mods_updated_count, no_new_version_count>>

\* (the read failure logged and the file skipped instead)
HashItemSkipped(item) ==
    /\ pc = "scan"
    /\ item \in unscanned
    /\ ~IsIgnored(item)
    /\ unscanned' = unscanned \ {item}
    /\ pc' = AfterScan(unscanned', mod_hash_list)
    /\ cause' = "read_error"
    /\ UNCHANGED <<runVars, dir, dir0, mods_filename_dict, mod_hash_list,
                   pkg_file, registryVars, loopVars>>

\* get_sha1 raises (the file cannot be opened or read): nothing catches it
HashItemFails(item) ==
    /\ pc = "scan"
    /\ item \in unscanned
    /\ ~IsIgnored(item)
    /\ pc' = "crash"
    /\ cause' = "read_error"
    /\ UNCHANGED <<runVars, dir, dir0, scanVars, registryVars, loopVars>>

\* ---------------------------------------------------------------- registry
\* the error payload of a bulk call: a dict with the key 'error'
ErrorPayload == [error |-> [message |-> "registry error"]]

Range(seq) == {seq[i] : i \in 1..Len(seq)}

\* what get_multiple_mods_details may return for the hashes it is given: an
\* error payload, or details for some of them, each with a non-empty loader list
DetailsResponses(hashes) ==
    {ErrorPayload} \cup
    UNION { [S -> [loaders : LoaderSeqs]] : S \in SUBSET Range(hashes) }

\* what get_multiple_mods_update_info may return for a group: an error payload,
\* or an update entry for some of the group, each with its list of files
UpdatesResponses(mods) ==
    {ErrorPayload} \cup
    UNION { [S -> [files : {<<f>> : f \in FileRefs}]] : S \in SUBSET mods }

\* 'error' in mods_info_dict.keys()
HasErrorUnchecked(payload) == FALSE
HasError(payload) == "error" \in DOMAIN payload

\* whether the partition loop can index info[mod]['loaders'] for every key;
\* on an error payload the subscript raises and nothing catches it
CanPartition(info) == \A mod \in DOMAIN info : "loaders" \in DOMAIN info[mod]

\* mods_info_dict[mod]['loaders'][0]
FirstLoaderIsLast(info, mod) == info[mod].loaders[Len(info[mod].loaders)]
FirstLoader(info, mod) == info[mod].loaders[1]

\* mods_loader_dict after the partition loop
ModsLoaderDict(info) == [mod \in DOMAIN info |-> FirstLoader(info, mod)]

\* loader_mods_dict after the partition loop
LoaderModsDict(info) ==
    [loader \in {FirstLoader(info, mod) : mod \in DOMAIN info} |->
        {mod \in DOMAIN info : FirstLoader(info, mod) = loader}]

\* mods_update_info before the update lookups: src/mod-updater.py seeds an
\* empty dict per loader, src/main.py starts from {}
InitialUpdateInfo(e, groups) ==
    IF e = "mod_updater" THEN [loader \in DOMAIN groups |-> EmptyDict]
    ELSE EmptyDict

\* where the run goes after the partition loop and after each update lookup
AfterLookup(todo) == IF todo = {} THEN "loop" ELSE "updates"

\* get_multiple_mods_details, its error check and the partition loop
FetchDetails(response) ==
    /\ pc = "details"
    /\ response \in DetailsResponses(mod_hash_list)
    /\ run = 2 => response = reg_info   \* the registry has not changed
    /\ mods_info_dict' = response
    /\ registry_calls' = Append(registry_calls,
          [api |-> "details", loader |-> "", mods |-> Range(mod_hash_list)])
    /\ IF HasError(response)
       THEN /\ pc' = "exit"
            /\ cause' = "details_error"
            /\ UNCHANGED <<loader_mods_dict, mods_loader_dict,
                           mods_update_info, loaders_todo>>
       ELSE IF ~CanPartition(response)
       THEN /\ pc' = "crash"
            /\ cause' = "type_error"
            /\ UNCHANGED <<loader_mods_dict, mods_loader_dict,
                           mods_update_info, loaders_todo>>
       ELSE /\ loader_mods_dict' = LoaderModsDict(response)
            /\ mods_loader_dict' = ModsLoaderDict(response)
            /\ mods_update_info' = InitialUpdateInfo(entry, loader_mods_dict')
            /\ loaders_todo' = DOMAIN loader_mods_dict'
            /\ pc' = AfterLookup(loaders_todo')
            /\ cause' = cause
    /\ UNCHANGED <<runVars, dir, dir0, scanVars, loopVars>>

\* one iteration of "for loader in loader_mods_dict": the lookup and the error
\* check that follows it, which tests mods_info_dict
FetchUpdates(loader, response) ==
    /\ pc = "updates"
    /\ loader \in loaders_todo
    /\ response \in UpdatesResponses(loader_mods_dict[loader])
    /\ run = 2 => response = reg_updates[loader]
    /\ mods_update_info' = Put(mods_update_info, loader, response)
    /\ registry_calls' = Append(registry_calls,
          [api |-> "updates", loader |-> loader, mods |-> loader_mods_dict[loader]])
    /\ loaders_todo' = loaders_todo \ {loader}
    /\ IF HasError(mods_info_dict)
       THEN /\ pc' = "exit"
            /\ cause' = "updates_error"
       ELSE /\ pc' = AfterLookup(loaders_todo')
            /\ cause' = cause
    /\ UNCHANGED <<runVars, dir, dir0, scanVars, mods_info_dict,
                   loader_mods_dict, mods_loader_dict, loopVars>>

\* ------------------------------------------------------------- update loop
\* mods_update_info[mods_loader_dict[mod]][mod]['files'][0]
SelectedFile(updates, loaders, mod) == updates[loaders[mod]][mod].files[1]

\* mod == mod_update_files[0]['hashes']['sha1']
IsAlreadyUpdatedInverted(mod, file) == mod # file.hashes.sha1
IsAlreadyUpdated(mod, file) == mod = file.hashes.sha1

\* the branch one iteration of the update loop takes for mod.  src/main.py
\* tests "mod not in mods_loader_dict.keys()" first; src/mod-updater.py has no
\* such test and indexes mods_loader_dict[mod] at once, which raises KeyError
Decide(e, updates, loaders, mod) ==
    IF mod \notin DOMAIN loaders
    THEN IF e = "main" THEN "NoRegistryMatch" ELSE "KeyError"
    ELSE IF mod \notin DOMAIN updates[loaders[mod]] THEN "NoVersionForTarget"
    ELSE IF IsAlreadyUpdated(mod, SelectedFile(updates, loaders, mod))
         THEN "UpToDate"
    ELSE "UpdateAvailable"

\* download_file: the directory after the download of url ended with outcome.
\* The destination is opened only after raise_for_status, so an HTTP error or
\* a failed connection writes nothing; an error while the chunks are written
\* leaves the truncated file behind
DownloadFile(d, url, content, outcome) ==
    CASE outcome = "ok" -> Put(d, SplitLast(url, "/"), content)
      [] outcome = "oserr" -> Put(d, SplitLast(url, "/"), "partial")
      [] OTHER -> d

\* the except clause that handles the exception download_file raised with
\* outcome: in src/main.py "except HTTPError" logs and goes on, "except
\* Exception" calls exit(); download_mod of src/mod-updater.py logs in both
DownloadAborts(e, outcome) ==
    e = "main" /\ outcome \in {"conn", "oserr"}

\* whether os.remove follows a download that ended with outcome: in
\* src/main.py it is inside the try, after download_file; in
\* src/mod-updater.py it follows download_mod, which never raises
RemoveFollows(e, k, outcome) ==
    /\ ~k
    /\ (e = "main" => outcome = "ok")

SetAt(seq, i, v) == [seq EXCEPT ![i] = v]

\* how the run goes on after iteration i of the update loop
AfterMod(i, hashes) == IF i >= Len(hashes) THEN "summary" ELSE "loop"

\* an iteration that ends in one of the "continue" branches
SkipMod ==
    /\ pc = "loop"
    /\ LET mod == mod_hash_list[idx]
           d == Decide(entry, mods_update_info, mods_loader_dict, mod)
       IN /\ d \in {"NoRegistryMatch", "NoVersionForTarget", "UpToDate"}
          /\ decision' = SetAt(decision, idx, d)
          /\ no_new_version_count' =
                IF d = "UpToDate" THEN no_new_version_count
                ELSE no_new_version_count + 1
    /\ pc' = AfterMod(idx, mod_hash_list)
    /\ idx' = idx + 1
    /\ UNCHANGED <<runVars, dir, dir0, cause, scanVars, registryVars,
                   mods_updated_count, dl, del, wrote>>

\* src/mod-updater.py only: mods_loader_dict[mod] raises KeyError, uncaught
LookupFails ==
    /\ pc = "loop"
    /\ Decide(entry, mods_update_info, mods_loader_dict, mod_hash_list[idx])
          = "KeyError"
    /\ pc' = "crash"
    /\ cause' = "key_error"
    /\ UNCHANGED <<runVars, dir, dir0, scanVars, registryVars, loopVars>>

\* an iteration that reaches the download: download, delete, count
UpdateMod(outcome) ==
    /\ pc = "loop"
    /\ outcome \in DownloadOutcomes
    /\ LET mod == mod_hash_list[idx]
           d == Decide(entry, mods_update_info, mods_loader_dict, mod)
       IN /\ d = "UpdateAvailable"
          /\ decision' = SetAt(decision, idx, d)
          /\ dl' = SetAt(dl, idx, outcome)
          /\ wrote' = SetAt(wrote, idx,
                IF outcome \in {"ok", "oserr"}
                THEN SplitLast(SelectedFile(mods_update_info, mods_loader_dict,
                                            mod).url, "/")
                ELSE << >>)
          /\ LET file == SelectedFile(mods_update_info, mods_loader_dict, mod)
                 old == mods_filename_dict[mod]
                 got == DownloadFile(dir, file.url, file.hashes.sha1, outcome)
             IN IF DownloadAborts(entry, outcome)
                THEN /\ dir' = got
                     /\ pc' = "exit"
                     /\ cause' = "fatal_download"
                     /\ UNCHANGED <<idx, mods_updated_count, del>>
                ELSE IF RemoveFollows(entry, keep, outcome) /\ old \notin DOMAIN got
                THEN \* os.remove raises FileNotFoundError: "except Exception"
                     \* and exit() in src/main.py, uncaught in src/mod-updater.py
                     /\ dir' = got
                     /\ del' = SetAt(del, idx, "missing")
                     /\ pc' = IF entry = "main" THEN "exit" ELSE "crash"
                     /\ cause' = "remove_error"
                     /\ UNCHANGED <<idx, mods_updated_count>>
                ELSE /\ dir' = IF RemoveFollows(entry, keep, outcome)
                               THEN Drop(got, old) ELSE got
                     /\ del' = IF RemoveFollows(entry, keep, outcome)
                               THEN SetAt(del, idx, "ok") ELSE del
                     /\ mods_updated_count' = mods_updated_count + 1
                     /\ pc' = AfterMod(idx, mod_hash_list)
                     /\ idx' = idx + 1
                     /\ cause' = cause
    /\ UNCHANGED <<runVars, dir0, scanVars, registryVars,
                   no_new_version_count>>

\* the exit status of a run that ended: exit() is called without an argument
\* (SystemExit(None), status 0), main() returning gives 0, an exception that
\* nothing catches gives 1
ExitStatus(how) == IF how = "crash" THEN 1 ELSE 0

\* the script is started again on the directory the first run left; modelled
\* for a first run that reached its summary and left the directory as it
\* found it, so that the second run asks the registry the same questions
RunAgain ==
    /\ run = 1
    /\ pc = "summary"
    /\ dir = dir0
    /\ run' = 2
    /\ reg_info' = mods_info_dict
    /\ reg_updates' = mods_update_info
    /\ pc' = "scan"
    /\ cause' = "none"
    /\ unscanned' = DOMAIN dir
    /\ mods_filename_dict' = EmptyDict
    /\ mod_hash_list' = << >>
    /\ pkg_file' = << >>
    /\ mods_info_dict' = EmptyDict
    /\ loader_mods_dict' = EmptyDict
    /\ mods_loader_dict' = EmptyDict
    /\ mods_update_info' = EmptyDict
    /\ loaders_todo' = {}
    /\ registry_calls' = << >>
    /\ idx' = 1
    /\ mods_updated_count' = 0
    /\ no_new_version_count' = 0
    /\ decision' = << >>
    /\ dl' = << >>
    /\ del' = << >>
    /\ wrote' = << >>
    /\ UNCHANGED <<entry, keep, dir, dir0>>

\* ------------------------------------------------------------ specification
Next ==
    \/ \E item \in unscanned : IgnoreItem(item)
    \/ \E item \in unscanned : HashItem(item)
    \/ \E item \in unscanned : HashItemFails(item)
    \/ \E response \in DetailsResponses(mod_hash_list) : FetchDetails(response)
    \/ \E loader \in loaders_todo :
          \E response \in UpdatesResponses(loader_mods_dict[loader]) :
              FetchUpdates(loader, response)
    \/ SkipMod
    \/ LookupFails
    \/ \E outcome \in DownloadOutcomes : UpdateMod(outcome)
    \/ RunAgain

Spec == Init /\ [][Next]_vars

\* ------------------------------------------------------------------ claims
Packages == 1..Len(mod_hash_list)
Ended == {"summary", "exit", "crash"}
IsErrorPayload(payload) == "error" \in DOMAIN payload
NoSync == \A i \in Packages : dl[i] = "none" /\ del[i] = "none"
Succeeded == {i \in Packages : dl[i] = "ok"}

\* C1: an old file is deleted only after its replacement was downloaded
\* successfully and with keepOld false; after a failed download the package's
\* old file is still in the directory.
C1_DeleteOnlyAfterDownload ==
    \A i \in Packages :
        /\ del[i] # "none" => (dl[i] = "ok" /\ ~keep)
        /\ dl[i] \in {"http", "conn", "oserr"} => pkg_file[i] \in DOMAIN dir

\* C2: an error payload from a per-loader update lookup aborts the run: no
\* download, no delete, and no NoVersionForTarget decision drawn from it.
C2_UpdatesErrorAborts ==
    (\E loader \in DOMAIN mods_update_info :
        IsErrorPayload(mods_update_info[loader]))
    => /\ pc = "exit"
       /\ cause = "updates_error"
       /\ NoSync
       /\ \A i \in Packages : decision[i] # "NoVersionForTarget"

\* C3: an error payload from the bulk details lookup aborts the run at once:
\* no update lookup is issued, no package is decided, nothing is downloaded
\* or deleted, and the directory is as it was before the run.
C3_DetailsErrorAborts ==
    IsErrorPayload(mods_info_dict)
    => /\ pc = "exit"
       /\ cause = "details_error"
       /\ \A k \in 1..Len(registry_calls) : registry_calls[k].api # "updates"
       /\ \A i \in Packages : decision[i] = "none"
       /\ NoSync
       /\ dir = dir0

C3_Witness ==
    /\ IsErrorPayload(mods_info_dict)
    /\ pc = "exit"
    /\ Len(mod_hash_list) = MaxJars

\* C4: in a run that reaches the summary, updatedCount is the number of
\* packages whose replacement was downloaded successfully.
C4_UpdatedCountsSuccesses ==
    pc = "summary" => mods_updated_count = Cardinality(Succeeded)

\* C5: a download that fails with an HTTP error status, a connection failure
\* or a timeout does not abort the run.
C5_TransportFailureContinues ==
    \A i \in Packages :
        dl[i] \in {"http", "conn"} => ~(idx = i /\ cause = "fatal_download")

\* C6: a download that fails for a reason that is neither transport- nor
\* HTTP-level aborts the run immediately: the failing package's old file is
\* not deleted and no later package is downloaded or deleted.
C6_FatalFailureAborts ==
    \A i \in Packages :
        dl[i] = "oserr"
        => /\ pc = "exit"
           /\ idx = i
           /\ del[i] = "none"
           /\ \A j \in Packages : j > i => dl[j] = "none" /\ del[j] = "none"

\* C7: the decision step never fails, and in a run that reaches the summary
\* every local package has exactly one of the four decisions, the numbers of
\* packages per decision adding up to the number of local packages.
Decisions == {"UpToDate", "UpdateAvailable", "NoRegistryMatch", "NoVersionForTarget"}
Decided(d) == {i \in Packages : decision[i] = d}
C7_EveryPackageDecided ==
    /\ cause # "key_error"
    /\ pc = "summary"
       => /\ \A i \in Packages : decision[i] \in Decisions
          /\ Cardinality(Decided("UpToDate")) + Cardinality(Decided("UpdateAvailable"))
               + Cardinality(Decided("NoRegistryMatch"))
               + Cardinality(Decided("NoVersionForTarget")) = Len(mod_hash_list)

\* C8: a package the update loop has decided is UpToDate exactly when the
\* details response has it, the update response of its first loader has an
\* entry for it, and the sha1 of the first file of that entry is the
\* package's own sha1; an UpToDate package is neither downloaded nor deleted.
C8_UpToDateIffSameSha1 ==
    \A i \in Packages :
        LET mod == mod_hash_list[i] IN
        decision[i] # "none"
        => /\ decision[i] = "UpToDate"
              <=> /\ mod \in DOMAIN mods_info_dict
                  /\ LET upd == mods_update_info[mods_info_dict[mod].loaders[1]]
                     IN /\ mod \in DOMAIN upd
                        /\ upd[mod].files[1].hashes.sha1 = mod
           /\ decision[i] = "UpToDate" => dl[i] = "none" /\ del[i] = "none"

C8_Witness ==
    /\ pc = "summary"
    /\ \E i \in Packages : decision[i] = "UpToDate"
    /\ \E i \in Packages : decision[i] = "UpdateAvailable" /\ dl[i] = "ok"

\* C9: a local sha1 that the details response does not have is in no loader
\* group, is decided NoRegistryMatch without a download or a delete, and does
\* not stop the run.
LoopStarted ==
    pc \in {"loop", "summary"} \/ cause \in {"key_error", "fatal_download", "remove_error"}
C9_UnknownIsNoRegistryMatch ==
    \A i \in Packages :
        (LoopStarted /\ mod_hash_list[i] \notin DOMAIN mods_info_dict)
        => /\ \A loader \in DOMAIN loader_mods_dict :
                 mod_hash_list[i] \notin loader_mods_dict[loader]
           /\ dl[i] = "none" /\ del[i] = "none"
           /\ idx > i => decision[i] = "NoRegistryMatch"
           /\ ~(idx = i /\ cause = "key_error")

\* C10: with keepOld true no file that was there before the run is removed,
\* and when the run has ended the directory has as many entries as before
\* the run plus the number of updates applied.
C10_KeepOldKeepsEverything ==
    keep
    => /\ DOMAIN dir0 \subseteq DOMAIN dir
       /\ pc \in Ended
          => Cardinality(DOMAIN dir) = Cardinality(DOMAIN dir0) + Cardinality(Succeeded)

\* C11: a run that a fatal sync failure ended has a non-zero exit status.
C11_FatalExitsNonZero ==
    (pc \in Ended /\ cause = "fatal_download" /\ dl[idx] = "oserr")
    => ExitStatus(pc) # 0

\* the file the registry selected for package i: the first file of the update
\* entry of its first loader
Candidate(i) ==
    LET mod == mod_hash_list[i]
    IN mods_update_info[mods_info_dict[mod].loaders[1]][mod].files[1]

\* C12: a replacement that was downloaded was written under the name
\* candidate.filename of the selected candidate.
C12_WrittenUnderCandidateFilename ==
    \A i \in Packages : dl[i] = "ok" => wrote[i] = Candidate(i).filename

PartitionDone == pc = "updates" \/ LoopStarted
UpdateCalls == {k \in 1..Len(registry_calls) : registry_calls[k].api = "updates"}

\* C13: every sha1 of the details response is in exactly one loader group, the
\* group of the first loader listed for it; the groups hold nothing else; and
\* the update lookup is issued once per group, with that group's sha1s and
\* that loader.
C13_PartitionByFirstLoader ==
    PartitionDone
    => /\ \A mod \in DOMAIN mods_info_dict :
             /\ mods_info_dict[mod].loaders[1] \in DOMAIN loader_mods_dict
             /\ \A loader \in DOMAIN loader_mods_dict :
                   mod \in loader_mods_dict[loader]
                   <=> loader = mods_info_dict[mod].loaders[1]
       /\ \A loader \in DOMAIN loader_mods_dict :
             /\ loader_mods_dict[loader] # {}
             /\ loader_mods_dict[loader] \subseteq DOMAIN mods_info_dict
       /\ \A k \in UpdateCalls :
             /\ registry_calls[k].loader \in DOMAIN loader_mods_dict
             /\ registry_calls[k].mods = loader_mods_dict[registry_calls[k].loader]
             /\ \A j \in UpdateCalls :
                   registry_calls[j].loader = registry_calls[k].loader => j = k
       /\ LoopStarted
          => \A loader \in DOMAIN loader_mods_dict :
                \E k \in UpdateCalls : registry_calls[k].loader = loader

C13_Witness ==
    /\ LoopStarted
    /\ Cardinality(DOMAIN loader_mods_dict) = 2
    /\ Cardinality(UpdateCalls) = 2
    /\ \E mod \in DOMAIN mods_info_dict : Len(mods_info_dict[mod].loaders) = 2

\* no local package has a pending update: none is known to the registry with
\* an update entry whose first file has another sha1
NoPendingUpdate ==
    \A i \in Packages :
        LET mod == mod_hash_list[i] IN
        ~ /\ mod \in DOMAIN mods_info_dict
          /\ LET upd == mods_update_info[mods_info_dict[mod].loaders[1]]
             IN /\ mod \in DOMAIN upd
                /\ upd[mod].files[1].hashes.sha1 # mod

\* C14: in a second run on a directory without pending updates, against the
\* same registry answers, nothing is downloaded or deleted, the directory
\* stays as it is and updatedCount is 0.
C14_SecondRunUpdatesNothing ==
    (run = 2 /\ LoopStarted /\ NoPendingUpdate)
    => /\ mods_updated_count = 0
       /\ NoSync
       /\ dir = dir0

C14_Witness ==
    /\ run = 2
    /\ pc = "summary"
    /\ NoPendingUpdate
    /\ Len(mod_hash_list) = MaxJars
    /\ \E i \in Packages : decision[i] = "UpToDate"

\* C15: when reading a .jar fails during hashing, the run ends there: no
\* registry call has been made and no file has been written or deleted.
C15_ReadFailureEndsRun ==
    cause = "read_error"
    => /\ pc = "crash"
       /\ registry_calls = << >>
       /\ NoSync
       /\ dir = dir0

C15_Witness ==
    /\ cause = "read_error"
    /\ pc = "crash"
    /\ Len(mod_hash_list) = MaxJars - 1
    /\ unscanned # {}

\* C16: after a successful update with keepOld false, the file the download
\* wrote is in the directory when the run has ended.
C16_ReplacementSurvives ==
    \A i \in Packages :
        (pc \in Ended /\ ~keep /\ dl[i] = "ok") => wrote[i] \in DOMAIN dir

\* C17: files with the same content are packages of their own: the delete
\* that follows a successful download removes the very file the package was
\* hashed from, and no delete is attempted on a path that is already gone.
C17_DuplicatesDeleteOwnFile ==
    \A i \in Packages :
        /\ del[i] # "missing"
        /\ (~keep /\ dl[i] = "ok" /\ del[i] = "ok")
           => mods_filename_dict[mod_hash_list[i]] = pkg_file[i]

====
